---- MODULE Spec2Model ----
(***************************************************************************)
(* A model of platformio/managers/lib.py (LibraryManager): the dependency  *)
(* normalizer, the version selector, the library resolver and the          *)
(* recursive install orchestrator.                                         *)
(*                                                                         *)
(* Python values are represented as follows.                               *)
(*   str    a sequence of atoms (TLA+ strings); an atom is an indivisible  *)
(*          piece of text: "a, b" is <<"a", ",", " ", "b">>, "id=3" is     *)
(*          <<"id=", "3">>, "1.2" is <<"1", ".", "2">>.                    *)
(*   dict   [order |-> the keys in iteration order, at |-> key -> value].  *)
(*   a value held in a dict, or one whose Python type the code inspects,  *)
(*          carries a tag: [t |-> "str", v |-> ...], [t |-> "int", ...],   *)
(*          [t |-> "list", v |-> ...], [t |-> "dict", v |-> ...],          *)
(*          [t |-> "none"].                                                *)
(***************************************************************************)
EXTENDS Integers, Sequences, FiniteSets, TLC

VARIABLES
    world,        \* the registry's packages: [deps |-> the dependencies each
                  \* library's manifest declares]
    store,        \* the packages installed in the package store
    stack,        \* the frames of the install calls in progress, the innermost last
    log,          \* the calls, registry requests, store writes, returns and raises
    attempts,     \* the download attempts of the physical install in progress:
                  \* [url tried, given (the URL to download), registry, result]
    exc,          \* the exception being propagated, or "none"
    outcome,      \* how the top-level install call ended
    res_in,       \* search_for_library: [filters, result, enable_prompts], result
                  \* being the registry's answer to the search
    res_out,      \* [status, lib_info, query, prompts, pick]: how the call ended, the
                  \* query it sent and the number of prompts it issued
    res_pc,       \* "idle" | "prompt" | "done"
    sel_versions, \* max_satisfying_repo_version: the candidate list
    sel_req,      \* its requirements argument: None or a str
    sel_item,     \* the record it returned, or None
    sel_pc,       \* "idle" | "done"
    norm_in,     \* normalize_dependencies: the argument as it was before the call
    norm_deps,   \* the argument object as it is now (the heap object the caller holds)
    norm_out,    \* the list returned by the first call
    norm_out2,   \* the list returned by the call on the first call's result
    norm_pc      \* "idle" | "once" | "twice"

norm_vars == <<norm_in, norm_deps, norm_out, norm_out2, norm_pc>>
sel_vars == <<sel_versions, sel_req, sel_item, sel_pc>>
res_vars == <<res_in, res_out, res_pc>>
inst_vars == <<world, store, stack, log, attempts, exc, outcome>>

----------------------------------------------------------------------------
(* Bounds of the model *)

MaxItems == 2        \* entries of a raw dependency list / mapping
MaxVersions == 3     \* version records of one candidate list
MaxMatches == 3      \* items of one registry search result
MaxDeps == 2         \* dependencies one manifest declares

----------------------------------------------------------------------------
(* Python str helpers *)

\* s.strip(): leading and trailing whitespace removed
RECURSIVE LStrip(_)
LStrip(s) == IF s # <<>> /\ Head(s) = " " THEN LStrip(Tail(s)) ELSE s

RECURSIVE RStrip(_)
RStrip(s) ==
    IF s # <<>> /\ s[Len(s)] = " " THEN RStrip(SubSeq(s, 1, Len(s) - 1)) ELSE s

Strip(s) == RStrip(LStrip(s))

\* s.split(sep): the pieces between separators, empty pieces kept
RECURSIVE SplitOn(_, _)
SplitOn(s, sep) ==
    IF \E i \in 1..Len(s) : s[i] = sep
    THEN LET i == CHOOSE j \in 1..Len(s) :
                      s[j] = sep /\ \A k \in 1..(j - 1) : s[k] # sep
         IN  <<SubSeq(s, 1, i - 1)>> \o SplitOn(SubSeq(s, i + 1, Len(s)), sep)
    ELSE <<s>>

SplitComma(s) == SplitOn(s, ",")

\* [i.strip() for i in pieces]
StripAll(pieces) == [i \in 1..Len(pieces) |-> Strip(pieces[i])]

IsNonEmpty(s) == s # <<>>

----------------------------------------------------------------------------
(* Python dict helpers *)

EmptyDict == [order |-> <<>>, at |-> <<>>]

Has(d, k) == k \in DOMAIN d.at

DictDel(d, k) ==
    [order |-> SelectSeq(d.order, LAMBDA x : x # k),
     at    |-> [x \in (DOMAIN d.at) \ {k} |-> d.at[x]]]

DictSet(d, k, val) ==
    [order |-> IF Has(d, k) THEN d.order ELSE Append(d.order, k),
     at    |-> [x \in (DOMAIN d.at) \cup {k} |-> IF x = k THEN val ELSE d.at[x]]]

RECURSIVE MkDict(_)
MkDict(pairs) ==
    IF pairs = <<>> THEN EmptyDict
    ELSE LET p == pairs[Len(pairs)]
         IN  DictSet(MkDict(SubSeq(pairs, 1, Len(pairs) - 1)), p[1], p[2])

PStr(s)  == [t |-> "str",  v |-> s]
PInt(n)  == [t |-> "int",  v |-> n]
PList(l) == [t |-> "list", v |-> l]
PDict(d) == [t |-> "dict", v |-> d]
PNone    == [t |-> "none"]

kName       == <<"name">>
kVersion    == <<"version">>
kFrameworks == <<"frameworks">>
kPlatforms  == <<"platforms">>
kAuthors    == <<"authors">>

\* the sequences over S of length at most n
SeqsUpTo(S, n) == UNION {[1..m -> S] : m \in 0..n}

----------------------------------------------------------------------------
(* The state of a component that a specification does not exercise *)

NormIdle ==
    /\ norm_in = PNone
    /\ norm_deps = PNone
    /\ norm_out = <<>>
    /\ norm_out2 = <<>>
    /\ norm_pc = "off"

SelIdle ==
    /\ sel_versions = <<>>
    /\ sel_req = PNone
    /\ sel_item = PNone
    /\ sel_pc = "off"

InstIdle ==
    /\ world = [deps |-> <<>>]
    /\ store = {}
    /\ stack = <<>>
    /\ log = <<>>
    /\ attempts = <<>>
    /\ exc = "none"
    /\ outcome = [status |-> "off", value |-> PNone]

NoSearch == [status |-> "none", lib_info |-> PNone, query |-> <<>>, prompts |-> 0,
             pick |-> 0]

ResIdle ==
    /\ res_in = [filters |-> EmptyDict, result |-> [total |-> 0, items |-> <<>>],
                 enable_prompts |-> FALSE]
    /\ res_out = NoSearch
    /\ res_pc = "off"

----------------------------------------------------------------------------
(* LibraryManager.normalize_dependencies *)

TagKeys == <<kFrameworks, kPlatforms>>

\* NormalizeKey with the wildcard blanked instead of deleted
NormalizeKey_Blank(item, k) ==
    IF ~Has(item, k)
    THEN item
    ELSE IF item.at[k] = PStr(<<"*">>)
    THEN DictSet(item, k, PStr(<<>>))
    ELSE IF item.at[k].t = "str"
    THEN DictSet(item, k,
                 PList(SelectSeq(StripAll(SplitComma(item.at[k].v)),
                                 IsNonEmpty)))
    ELSE item

\* one pass of the inner loop: the body for key k of item
NormalizeKey(item, k) ==
    IF ~Has(item, k)                      \* isinstance(k, list) is never true
    THEN item
    ELSE IF item.at[k] = PStr(<<"*">>)
    THEN DictDel(item, k)
    ELSE IF item.at[k].t = "str"
    THEN DictSet(item, k,
                 PList(SelectSeq(StripAll(SplitComma(item.at[k].v)),
                                 IsNonEmpty)))
    ELSE item

\* the loop over ("frameworks", "platforms") for one item
NormalizeItem(item) == NormalizeKey(NormalizeKey(item, TagKeys[1]), TagKeys[2])

\* not dependencies
Falsy(deps) ==
    \/ deps.t = "none"
    \/ deps.t = "dict" /\ deps.v.order = <<>>
    \/ deps.t = "list" /\ deps.v = <<>>

\* CollectItems with the list taken as it is, entries without a name included
CollectItems_NoFilter(deps) ==
    IF deps.t = "dict"
    THEN IF Has(deps.v, kName)
         THEN <<deps.v>>
         ELSE [i \in 1..Len(deps.v.order) |->
                  MkDict(<< <<kName, PStr(deps.v.order[i])>>,
                            <<kVersion, deps.v.at[deps.v.order[i]]>> >>)]
    ELSE IF deps.t = "list"
    THEN deps.v
    ELSE <<>>

\* the list items before the normalising loop
CollectItems(deps) ==
    IF deps.t = "dict"
    THEN IF Has(deps.v, kName)
         THEN <<deps.v>>
         ELSE [i \in 1..Len(deps.v.order) |->
                  MkDict(<< <<kName, PStr(deps.v.order[i])>>,
                            <<kVersion, deps.v.at[deps.v.order[i]]>> >>)]
    ELSE IF deps.t = "list"
    THEN SelectSeq(deps.v, LAMBDA d : Has(d, kName))
    ELSE <<>>

normalize_dependencies(deps) ==
    IF Falsy(deps) THEN <<>>
    ELSE [i \in 1..Len(CollectItems(deps)) |-> NormalizeItem(CollectItems(deps)[i])]

\* The argument object after the call: the items of the result are the very
\* mappings of the argument (single mapping, list entries), changed in place.
DepsAfterNormalize(deps) ==
    IF Falsy(deps) THEN deps
    ELSE IF deps.t = "dict"
    THEN IF Has(deps.v, kName) THEN PDict(NormalizeItem(deps.v)) ELSE deps
    ELSE IF deps.t = "list"
    THEN PList([i \in 1..Len(deps.v) |->
                   IF Has(deps.v[i], kName) THEN NormalizeItem(deps.v[i])
                   ELSE deps.v[i]])
    ELSE deps

----------------------------------------------------------------------------
(* semantic_version, as lib.py uses it: Version(s, partial=True), Spec(s),  *)
(* `version in spec` and `<` between partial versions.  Versions are one   *)
(* to three numeric components; a missing component compares equal to any *)
(* value.                                                                  *)

DigitAtoms == <<"0", "1", "2", "3", "4", "5", "6", "7", "8", "9">>

IsNum(a) == \E n \in 1..Len(DigitAtoms) : DigitAtoms[n] = a

NumVal(a) == (CHOOSE n \in 1..Len(DigitAtoms) : DigitAtoms[n] = a) - 1

ParseFail == [ok |-> FALSE]

\* semantic_version.Version(s, partial=True): ValueError is ParseFail
ParseVersion(s) ==
    LET parts == SplitOn(s, ".")
    IN  IF /\ Len(parts) \in 1..3
           /\ \A i \in 1..Len(parts) : Len(parts[i]) = 1 /\ IsNum(parts[i][1])
        THEN [ok |-> TRUE, v |-> [i \in 1..Len(parts) |-> NumVal(parts[i][1])]]
        ELSE ParseFail

\* the comparison of two partial versions: -1, 0 or 1
RECURSIVE CompareFrom(_, _, _)
CompareFrom(a, b, i) ==
    IF i > Len(a) \/ i > Len(b) THEN 0
    ELSE IF a[i] < b[i] THEN -1
    ELSE IF a[i] > b[i] THEN 1
    ELSE CompareFrom(a, b, i + 1)

VersionCompare(a, b) == CompareFrom(a, b, 1)

VersionLt(a, b) == VersionCompare(a, b) = -1

SpecOps == {"<", "<=", "==", "=", ">=", ">", "!="}

\* semantic_version.SpecItem(piece)
ParseSpecItem(piece) ==
    IF piece = <<>> THEN ParseFail
    ELSE IF piece = <<"*">> THEN [ok |-> TRUE, kind |-> "*", v |-> <<>>]
    ELSE LET op  == IF Head(piece) \in SpecOps THEN Head(piece) ELSE "=="
             ver == ParseVersion(IF Head(piece) \in SpecOps THEN Tail(piece)
                                 ELSE piece)
         IN  IF ver.ok THEN [ok |-> TRUE, kind |-> op, v |-> ver.v] ELSE ParseFail

\* semantic_version.Spec(s): ValueError is ParseFail
ParseSpec(s) ==
    LET pieces == SplitComma(s)
    IN  IF \A i \in 1..Len(pieces) : ParseSpecItem(pieces[i]).ok
        THEN [ok |-> TRUE,
              items |-> [i \in 1..Len(pieces) |-> ParseSpecItem(pieces[i])]]
        ELSE ParseFail

\* SpecItem.match(version)
SpecItemMatch(it, ver) ==
    LET c == VersionCompare(ver, it.v)
    IN  CASE it.kind = "*"  -> TRUE
          [] it.kind = "<"  -> c < 0
          [] it.kind = "<=" -> c <= 0
          [] it.kind \in {"==", "="} -> c = 0
          [] it.kind = ">=" -> c >= 0
          [] it.kind = ">"  -> c > 0
          [] it.kind = "!=" -> c # 0

\* version in spec
SpecMatch(spec, ver) ==
    \A i \in 1..Len(spec.items) : SpecItemMatch(spec.items[i], ver)

----------------------------------------------------------------------------
(* LibraryManager.max_satisfying_repo_version                               *)
(* A version record is [version |-> str, date |-> str]; a date is the      *)
(* atoms of "YYYY-MM-DDTHH:MM:SSZ".                                        *)

DateAtoms == <<"00", "01", "02", "2020", "2021">>
DateVals  == <<0, 1, 2, 2020, 2021>>

DateNum(a) == DateVals[CHOOSE n \in 1..Len(DateAtoms) : DateAtoms[n] = a]

\* datetime.strptime(datestr[:-1].replace("T", " "), "%Y-%m-%d %H:%M:%S")
ParseDate(datestr) ==
    LET s == [i \in 1..(Len(datestr) - 1) |->
                 IF datestr[i] = "T" THEN " " ELSE datestr[i]]
    IN  <<DateNum(s[1]), DateNum(s[3]), DateNum(s[5]),
          DateNum(s[7]), DateNum(s[9]), DateNum(s[11])>>

\* date1 < date2 on datetime values
RECURSIVE DateLtFrom(_, _, _)
DateLtFrom(a, b, i) ==
    IF i > Len(a) THEN FALSE
    ELSE IF a[i] < b[i] THEN TRUE
    ELSE IF a[i] > b[i] THEN FALSE
    ELSE DateLtFrom(a, b, i + 1)

_cmp_dates(datestr1, datestr2) ==
    LET date1 == ParseDate(datestr1)
        date2 == ParseDate(datestr2)
    IN  IF date1 = date2 THEN 0
        ELSE IF DateLtFrom(date1, date2, 1) THEN -1 ELSE 1

\* `if requirements:` on None or a str
Truthy(req) == req.t = "str" /\ req.v # <<>>

\* reqspec: the parsed range, or None (ParseFail) when requirements is falsy
\* or Spec() raised ValueError
ReqSpec(requirements) ==
    IF Truthy(requirements) THEN ParseSpec(requirements.v) ELSE ParseFail

\* The loop body returns [item |-> the new item, ret |-> whether it returned].

\* RangeBranch keeping the smallest satisfying version
RangeBranchMin(item, v, reqspec) ==
    LET specver == ParseVersion(v.version)
    IN  IF ~specver.ok \/ ~SpecMatch(reqspec, specver.v)
        THEN [item |-> item, ret |-> FALSE]
        ELSE IF item = PNone \/ VersionLt(specver.v, ParseVersion(item.version).v)
        THEN [item |-> v, ret |-> FALSE]
        ELSE [item |-> item, ret |-> FALSE]

\* lines 90-94
RangeBranch(item, v, reqspec) ==
    LET specver == ParseVersion(v.version)
    IN  IF ~specver.ok \/ ~SpecMatch(reqspec, specver.v)
        THEN [item |-> item, ret |-> FALSE]
        ELSE IF item = PNone \/ VersionLt(ParseVersion(item.version).v, specver.v)
        THEN [item |-> v, ret |-> FALSE]
        ELSE [item |-> item, ret |-> FALSE]

\* ExactBranch remembering the match instead of returning it
ExactBranchNoReturn(item, v, requirements) ==
    IF requirements.v = v.version
    THEN [item |-> v, ret |-> FALSE]
    ELSE [item |-> item, ret |-> FALSE]

\* lines 96-97
ExactBranch(item, v, requirements) ==
    IF requirements.v = v.version
    THEN [item |-> v, ret |-> TRUE]
    ELSE [item |-> item, ret |-> FALSE]

\* DateBranch replacing the item on a tie as well
DateBranchTieLast(item, v) ==
    IF item = PNone \/ _cmp_dates(item.date, v.date) # 1
    THEN [item |-> v, ret |-> FALSE]
    ELSE [item |-> item, ret |-> FALSE]

\* lines 99-100
DateBranch(item, v) ==
    IF item = PNone \/ _cmp_dates(item.date, v.date) = -1
    THEN [item |-> v, ret |-> FALSE]
    ELSE [item |-> item, ret |-> FALSE]

\* lines 83-100: one iteration of `for v in versions`
SelectStep(item, v, requirements) ==
    IF ReqSpec(requirements).ok THEN RangeBranch(item, v, ReqSpec(requirements))
    ELSE IF Truthy(requirements) THEN ExactBranch(item, v, requirements)
    ELSE DateBranch(item, v)

\* the loop from candidate i on, item being the value held so far
RECURSIVE SelectFrom(_, _, _, _)
SelectFrom(versions, requirements, i, item) ==
    IF i > Len(versions) THEN item
    ELSE LET r == SelectStep(item, versions[i], requirements)
         IN  IF r.ret THEN r.item
             ELSE SelectFrom(versions, requirements, i + 1, r.item)

max_satisfying_repo_version(versions, requirements) ==
    SelectFrom(versions, requirements, 1, PNone)

----------------------------------------------------------------------------
(* The selector applied to bounded inputs *)

Date(y, s) == <<y, "-", "01", "-", "01", "T", "00", ":", "00", ":", s, "Z">>

SelDates == {Date("2020", "00"), Date("2021", "00")}

SelVersionStrings ==
    {<<"1", ".", "0", ".", "0">>, <<"1", ".", "2">>, <<"1", ".", "2", ".", "3">>,
     <<"2", ".", "0", ".", "0">>, <<"m">>}

SelRecords == [version : SelVersionStrings, date : SelDates]

SelRequirements ==
    {PNone, PStr(<<>>),
     PStr(<<">=", "1", ".", "2">>), PStr(<<"1", ".", "2", ".", "3">>),
     PStr(<<">", "1", ".", "0", ".", "0", ",", "<", "2">>), PStr(<<"<", "1">>),
     PStr(<<"m">>), PStr(<<"1", ".", "x">>)}

InitSel ==
    /\ InstIdle
    /\ NormIdle
    /\ ResIdle
    /\ sel_versions \in SeqsUpTo(SelRecords, MaxVersions)
    /\ sel_req \in SelRequirements
    /\ sel_item = PNone
    /\ sel_pc = "idle"

\* item = max_satisfying_repo_version(versions, requirements)
SelectVersion ==
    /\ sel_pc = "idle"
    /\ sel_item' = max_satisfying_repo_version(sel_versions, sel_req)
    /\ sel_pc' = "done"
    /\ UNCHANGED <<sel_versions, sel_req, norm_vars, res_vars, inst_vars>>

NextSel == SelectVersion

----------------------------------------------------------------------------
(* LibraryManager.search_for_library                                        *)
(* A registry item is [id |-> int, name |-> str]; a search result is       *)
(* [total |-> int, items |-> list of items].                               *)

QueryKeys == {kName, kAuthors, kFrameworks, kPlatforms}

\* key[:-1] if key.endswith("s") else key, for the keys of QueryKeys
Singular(key) ==
    CASE key = kAuthors    -> <<"author">>
      [] key = kFrameworks -> <<"framework">>
      [] key = kPlatforms  -> <<"platform">>
      [] OTHER             -> key

\* lines 193-195: the values of one filter field
QueryValues(val) ==
    IF val.t = "list" THEN val.v
    ELSE StripAll(SelectSeq(SplitComma(val.v), IsNonEmpty))

\* lines 189-198: the query terms <<field, value>>, in the order they are joined
RECURSIVE BuildQuery(_, _)
BuildQuery(filters, i) ==
    IF i > Len(filters.order) THEN <<>>
    ELSE LET key == filters.order[i]
         IN  (IF key \notin QueryKeys THEN <<>>
              ELSE [j \in 1..Len(QueryValues(filters.at[key])) |->
                       <<Singular(key), QueryValues(filters.at[key])[j]>>])
             \o BuildQuery(filters, i + 1)

\* ChooseLibrary prompting whenever prompts are enabled
ChooseLibraryEager(result, enable_prompts) ==
    IF result.total >= 1 /\ enable_prompts
    THEN [kind |-> "prompt", lib_info |-> PNone]
    ELSE IF result.total >= 1
    THEN [kind |-> "found", lib_info |-> result.items[1]]
    ELSE [kind |-> "notfound", lib_info |-> PNone]

\* lines 200-227 up to the prompt: what the result count decides
ChooseLibrary(result, enable_prompts) ==
    IF result.total = 1
    THEN [kind |-> "found", lib_info |-> result.items[1]]
    ELSE IF result.total > 1
    THEN IF ~enable_prompts
         THEN [kind |-> "found", lib_info |-> result.items[1]]
         ELSE [kind |-> "prompt", lib_info |-> PNone]
    ELSE [kind |-> "notfound", lib_info |-> PNone]

\* PickItem taking the first item whatever the answer
PickItemFirst(items, deplib_id, i) ==
    IF items = <<>> THEN PNone ELSE items[1]

\* lines 221-224: the item the answer to the prompt names, None if there is none
RECURSIVE PickItem(_, _, _)
PickItem(items, deplib_id, i) ==
    IF i > Len(items) THEN PNone
    ELSE IF items[i].id = deplib_id THEN items[i]
    ELSE PickItem(items, deplib_id, i + 1)

\* lines 226-233: raise LibNotFound or return lib_info
SearchEnd(lib_info, query, prompts) ==
    IF lib_info = PNone
    THEN [status |-> "LibNotFound", lib_info |-> PNone, query |-> query,
          prompts |-> prompts, pick |-> 0]
    ELSE [status |-> "returned", lib_info |-> lib_info, query |-> query,
          prompts |-> prompts, pick |-> 0]

----------------------------------------------------------------------------
(* The resolver applied to bounded inputs *)

ResIds == 1..(MaxMatches + 1)

ResNames == <<"A", "A", "B", "A", "A", "B", "A", "A", "B", "A">>

ResItem(id) == [id |-> id, name |-> <<ResNames[id]>>]

\* registry answers: total items, all different
ResResults ==
    {[total |-> Len(ids), items |-> [i \in 1..Len(ids) |-> ResItem(ids[i])]] :
        ids \in {q \in SeqsUpTo(ResIds, MaxMatches) :
                    \A i, j \in 1..Len(q) : i # j => q[i] # q[j]}}

ResFilters ==
    {MkDict(<< <<kName, PStr(<<"A">>)>> >>),
     MkDict(<< <<kName, PStr(<<"A">>)>>, <<kVersion, PStr(<<"1">>)>>,
               <<kFrameworks, PList(<< <<"a">>, <<"b">> >>)>> >>),
     MkDict(<< <<kPlatforms, PStr(<<"x", ",", " ", "y", ",">>)>>,
               <<kName, PStr(<<"B">>)>> >>)}

InitRes ==
    /\ InstIdle
    /\ NormIdle
    /\ SelIdle
    /\ res_in \in [filters : ResFilters, result : ResResults,
                   enable_prompts : BOOLEAN]
    /\ res_out = NoSearch
    /\ res_pc = "idle"

\* search_for_library up to its return, its raise or its prompt
Search ==
    /\ res_pc = "idle"
    /\ LET query == BuildQuery(res_in.filters, 1)
           c     == ChooseLibrary(res_in.result, res_in.enable_prompts)
       IN  IF c.kind = "prompt"
           THEN /\ res_out' = [NoSearch EXCEPT !.query = query, !.prompts = 1]
                /\ res_pc' = "prompt"
           ELSE /\ res_out' = SearchEnd(c.lib_info, query, 0)
                /\ res_pc' = "done"
    /\ UNCHANGED <<res_in, norm_vars, sel_vars, inst_vars>>

\* click.prompt returns one of the ids listed (click.Choice), and the call ends
AnswerPrompt ==
    /\ res_pc = "prompt"
    /\ \E deplib_id \in {res_in.result.items[i].id :
                            i \in 1..Len(res_in.result.items)} :
          res_out' = [SearchEnd(PickItem(res_in.result.items, deplib_id, 1),
                                res_out.query, res_out.prompts)
                         EXCEPT !.pick = deplib_id]
    /\ res_pc' = "done"
    /\ UNCHANGED <<res_in, norm_vars, sel_vars, inst_vars>>

NextRes == Search \/ AnswerPrompt

----------------------------------------------------------------------------
(* The normalizer applied to bounded inputs *)

NormNames == {PStr(<<"a">>), PStr(<<"b">>)}

\* values a frameworks field is given
NormFrameworks ==
    {PStr(<<"*">>), PStr(<<"a", ",", " ", "b">>), PStr(<<" ", "*">>),
     PStr(<<",">>), PList(<< <<"a">> >>)}

\* values a platforms field is given
NormPlatforms == {PStr(<<"*">>)}

OptPair(k, vals) == {<<>>} \cup {<< <<k, val>> >> : val \in vals}

\* the mappings of a dependency list: name, frameworks and platforms each optional
NormItems ==
    {MkDict(n \o f \o p) : n \in OptPair(kName, NormNames),
                           f \in OptPair(kFrameworks, NormFrameworks),
                           p \in OptPair(kPlatforms, NormPlatforms)}

NormMapVersions == {PStr(<<"^", "1", ".", "2", ".", "3">>), PStr(<<"*">>)}

\* name -> version mappings, their keys in iteration order
NormMappings ==
    {MkDict(ps) : ps \in {q \in SeqsUpTo({<<"wifi">>, <<"b">>, kFrameworks}
                                          \X NormMapVersions, MaxItems) :
                            \A i, j \in 1..Len(q) : i # j => q[i][1] # q[j][1]}}

\* the raw declaration shapes
NormInputs ==
    {PNone}
    \cup {PDict(d) : d \in NormItems \cup NormMappings}
    \cup {PList(l) : l \in SeqsUpTo(NormItems, MaxItems)}

InitNorm ==
    /\ InstIdle
    /\ SelIdle
    /\ ResIdle
    /\ norm_in \in NormInputs
    /\ norm_deps = norm_in
    /\ norm_out = <<>>
    /\ norm_out2 = <<>>
    /\ norm_pc = "idle"

\* items = normalize_dependencies(deps)
NormalizeCall ==
    /\ norm_pc = "idle"
    /\ norm_out' = normalize_dependencies(norm_deps)
    /\ norm_deps' = DepsAfterNormalize(norm_deps)
    /\ norm_pc' = "once"
    /\ UNCHANGED <<norm_in, norm_out2, sel_vars, res_vars, inst_vars>>

\* normalize_dependencies(items), on the list the first call returned; norm_out
\* keeps the first result as it was returned
NormalizeAgain ==
    /\ norm_pc = "once"
    /\ norm_out2' = normalize_dependencies(PList(norm_out))
    /\ norm_deps' = DepsAfterNormalize(norm_deps)
    /\ norm_pc' = "twice"
    /\ UNCHANGED <<norm_in, norm_out, sel_vars, res_vars, inst_vars>>

NextNorm == NormalizeCall \/ NormalizeAgain

----------------------------------------------------------------------------
(* The registry and the package store, as the install orchestrator sees    *)
(* them.  A package of the store is [dir |-> str, manifest |-> dict].      *)

kId           == <<"id">>
kUrl          == <<"url">>
kDependencies == <<"dependencies">>

LibIds == {1, 2, 3}

LibNames == << <<"A">>, <<"B">>, <<"C">> >>

\* the versions the registry publishes of a library
RegVersions(id) ==
    IF id = 2
    THEN << [version |-> <<"1", ".", "0", ".", "0">>, date |-> Date("2020", "00")],
            [version |-> <<"2", ".", "0", ".", "0">>, date |-> Date("2021", "00")] >>
    ELSE << [version |-> <<"1", ".", "0", ".", "0">>, date |-> Date("2020", "00")] >>

\* util.get_api_result("/lib/search", query): the libraries of that name
RegistrySearch(query) ==
    LET named(id) == \E i \in 1..Len(query) :
                        query[i] = <<kName, LibNames[id]>>
        ids == SelectSeq(<<1, 2, 3>>, named)
    IN  [total |-> Len(ids),
         items |-> [i \in 1..Len(ids) |-> [id |-> ids[i], name |-> LibNames[ids[i]]]]]

\* util.get_api_result("/lib/download/<id>", version)['url']
RegistryUrl(id, version) ==
    <<"http", ":", "/", "/", "dl", "/", DigitAtoms[id + 1], "/">> \o version

\* the package directory the store gives a package
PkgDir(name, version) == <<"lib", "/">> \o name \o <<"_">> \o version

\* the package a download of library id at a version unpacks to
RepoPackage(id, version, dependencies) ==
    [dir |-> PkgDir(LibNames[id], version),
     manifest |->
        IF dependencies = PNone
        THEN MkDict(<< <<kId, PInt(id)>>, <<kName, PStr(LibNames[id])>>,
                       <<kVersion, PStr(version)>> >>)
        ELSE MkDict(<< <<kId, PInt(id)>>, <<kName, PStr(LibNames[id])>>,
                       <<kVersion, PStr(version)>>,
                       <<kDependencies, dependencies>> >>)]

\* the direct URL a dependency may be pinned to, and the package found there
DirectUrl == <<"http", ":", "/", "/", "h", "/", "u">>

UrlPackage(name, url) ==
    [dir |-> PkgDir(name, <<"0", ".", "1", ".", "0">>),
     manifest |-> MkDict(<< <<kName, PStr(name)>>,
                            <<kVersion, PStr(<<"0", ".", "1", ".", "0">>)>>,
                            <<kUrl, PStr(url)>> >>)]

\* s.startswith("id=")
IsIdName(name) == name # <<>> /\ Head(name) = "id="

\* "id=%d" % id
IdName(id) == <<"id=", DigitAtoms[id + 1]>>

\* int(name[3:])
IdOfName(name) == NumVal(name[2])

\* "://" in s
HasUrlMarker(s) ==
    \E i \in 1..(Len(s) - 2) : s[i] = ":" /\ s[i + 1] = "/" /\ s[i + 2] = "/"

\* the first position of atom a in s, 0 if there is none
FirstIndex(s, a) ==
    IF \E i \in 1..Len(s) : s[i] = a
    THEN CHOOSE i \in 1..Len(s) : s[i] = a /\ \A j \in 1..(i - 1) : s[j] # a
    ELSE 0

\* BasePkgManager.parse_pkg_name(name, requirements): the triple
\* [name, requirements, url]; a number becomes id=N, name=URL a direct URL
parse_pkg_name(name, requirements) ==
    IF name.t = "int"
    THEN [name |-> IdName(name.v), requirements |-> requirements, url |-> PNone]
    ELSE LET eq == FirstIndex(name.v, "=")
         IN  IF eq > 0 /\ ~IsIdName(name.v)
                /\ HasUrlMarker(SubSeq(name.v, eq + 1, Len(name.v)))
             THEN [name |-> SubSeq(name.v, 1, eq - 1),
                   requirements |-> requirements,
                   url |-> PStr(SubSeq(name.v, eq + 1, Len(name.v)))]
             ELSE [name |-> name.v, requirements |-> requirements, url |-> PNone]

\* whether an installed version is compatible with a requirement
RequirementOk(requirements, version) ==
    \/ ~Truthy(requirements)
    \/ requirements.v = version
    \/ /\ ParseSpec(requirements.v).ok
       /\ ParseVersion(version).ok
       /\ SpecMatch(ParseSpec(requirements.v), ParseVersion(version).v)

\* the installed packages that satisfy (name, requirements, url)
InstalledMatches(pkgs, name, requirements, url) ==
    {p \in pkgs :
        /\ IF url # PNone
           THEN Has(p.manifest, kUrl) /\ p.manifest.at[kUrl] = url
           ELSE IF IsIdName(name)
           THEN Has(p.manifest, kId) /\ p.manifest.at[kId] = PInt(IdOfName(name))
           ELSE p.manifest.at[kName] = PStr(name)
        /\ RequirementOk(requirements, p.manifest.at[kVersion].v)}

\* BasePkgManager.get_installed_dir(name, requirements, url): the directory
\* of the greatest installed version that satisfies the triple, or None
get_installed_dir(pkgs, name, requirements, url) ==
    LET m == InstalledMatches(pkgs, name, requirements, url)
    IN  IF m = {} THEN PNone
        ELSE PStr((CHOOSE p \in m : \A q \in m :
                     ~VersionLt(ParseVersion(p.manifest.at[kVersion].v).v,
                                ParseVersion(q.manifest.at[kVersion].v).v)).dir)

\* BasePkgManager.load_manifest(pkg_dir)
load_manifest(pkgs, pkg_dir) ==
    (CHOOSE p \in pkgs : p.dir = pkg_dir.v).manifest

----------------------------------------------------------------------------
(* LibraryManager._get_pkg_id_by_name: [id, searched, found]                *)

\* _get_pkg_id_by_name without the look into the installed manifest
get_pkg_id_by_name_search(pkgs, name, requirements) ==
    IF IsIdName(name)
    THEN [id |-> IdOfName(name), searched |-> FALSE, found |-> TRUE]
    ELSE LET c == ChooseLibrary(
                     RegistrySearch(BuildQuery(
                         MkDict(<< <<kName, PStr(name)>> >>), 1)),
                     FALSE)
         IN  IF c.kind = "found"
             THEN [id |-> c.lib_info.id, searched |-> TRUE, found |-> TRUE]
             ELSE [id |-> 0, searched |-> TRUE, found |-> FALSE]

get_pkg_id_by_name(pkgs, name, requirements) ==
    IF IsIdName(name)
    THEN [id |-> IdOfName(name), searched |-> FALSE, found |-> TRUE]
    ELSE LET installed_dir == get_installed_dir(pkgs, name, requirements, PNone)
         IN  IF installed_dir # PNone
                /\ Has(load_manifest(pkgs, installed_dir), kId)
             THEN [id |-> load_manifest(pkgs, installed_dir).at[kId].v,
                   searched |-> FALSE, found |-> TRUE]
             ELSE LET c == ChooseLibrary(
                              RegistrySearch(BuildQuery(
                                  MkDict(<< <<kName, PStr(name)>> >>), 1)),
                              FALSE)
                  IN  IF c.kind = "found"
                      THEN [id |-> c.lib_info.id, searched |-> TRUE, found |-> TRUE]
                      ELSE [id |-> 0, searched |-> TRUE, found |-> FALSE]

----------------------------------------------------------------------------
(* LibraryManager.install                                                   *)
(* A frame of the call stack holds one call's arguments and locals; pc is  *)
(* the place the call has reached.  log is the history of calls, registry  *)
(* requests, store writes, returns and raises.                             *)

\* app.get_setting("enable_prompts"), for the installs modelled
EnablePrompts == FALSE

\* by: the already_installed of the call whose dependency loop made this call
Frame(name, requirements, by) ==
    [name |-> name, requirements |-> requirements, by |-> by,
     pname |-> <<>>, preq |-> PNone, url |-> PNone,
     already_installed |-> PNone, pkg_dir |-> PNone,
     dl |-> [url |-> <<>>, id |-> 0, version |-> <<>>],
     deps |-> <<>>, i |-> 0, expanded |-> 0, pc |-> "parse"]

Top == stack[Len(stack)]

Depth == Len(stack)

Running == exc = "none" /\ stack # <<>>

SetTop(f) == [stack EXCEPT ![Len(stack)] = f]

\* s with nothing replaced
ReplaceHttpNone(s) == s

\* s.replace("http://", "https://")
ReplaceHttp(s) ==
    [i \in 1..Len(s) |->
        IF s[i] = "http" /\ i + 3 <= Len(s)
           /\ s[i + 1] = ":" /\ s[i + 2] = "/" /\ s[i + 3] = "/"
        THEN "https" ELSE s[i]]

\* any([s in version for s in ("\\", "/")])
HasSlash(version) == \E i \in 1..Len(version) : version[i] \in {"\\", "/"}

\* line 152 with the check dropped
ReturnsEarlyNever(already_installed) == FALSE

\* line 152 with the check made only by calls nested three deep or more
ReturnsEarlyDeep(already_installed) == already_installed # PNone /\ Len(stack) > 2

\* line 152 with the store looked at after the physical install
ReturnsEarlyLate(already_installed) ==
    get_installed_dir(store, Top.pname, Top.preq, Top.url) # PNone

\* line 152: if already_installed
ReturnsEarly(already_installed) == already_installed # PNone

\* line 153: the value a call returns for a target that was already installed
EarlyReturnValue(pkg_dir) == PNone

\* _name left as parse_pkg_name gave it
ResolvedNameBare(p, id) == p.name

\* lines 145-147: _name, converted to id=N unless the request is a direct URL
ResolvedName(p, id) == IF p.url = PNone THEN IdName(id) ELSE p.name

\* the dependency list gone through from its end
NextFilterReversed(f) == f.deps[Len(f.deps) + 1 - f.i]

\* line 162: the filters the loop of call f has reached
NextFilter(f) == f.deps[f.i]

\* the call on top of the stack raises e
Raise(e, events) ==
    /\ exc' = e
    /\ log' = log \o events \o <<[e |-> "raise", depth |-> Depth, exc |-> e]>>
    /\ UNCHANGED <<stack, store, outcome>>

\* the call on top of the stack returns value to its caller, whose loop goes on
Return(value) ==
    /\ log' = Append(log, [e |-> "return", depth |-> Depth, name |-> Top.pname,
                           requirements |-> Top.preq, url |-> Top.url,
                           value |-> value,
                           already_installed |-> Top.already_installed,
                           installed |-> get_installed_dir(store, Top.pname,
                                                           Top.preq, Top.url),
                           expanded |-> Top.expanded])
    /\ IF Depth = 1
       THEN /\ stack' = <<>>
            /\ outcome' = [status |-> "returned", value |-> value]
       ELSE /\ stack' = [SubSeq(stack, 1, Depth - 1) EXCEPT
                            ![Depth - 1].i = stack[Depth - 1].i + 1]
            /\ UNCHANGED outcome
    /\ UNCHANGED <<exc, store>>

\* lines 144-148: parse the request, resolve the name to id=N, look whether
\* the target is installed
InstallParse ==
    /\ Running
    /\ Top.pc = "parse"
    /\ LET p    == parse_pkg_name(Top.name, Top.requirements)
           r    == get_pkg_id_by_name(store, p.name, p.requirements)
           call == <<[e |-> "call", depth |-> Depth, name |-> Top.name,
                      requirements |-> Top.requirements, by |-> Top.by]>>
           look == IF p.url = PNone /\ r.searched
                   THEN <<[e |-> "search", depth |-> Depth, name |-> p.name,
                           dep |-> FALSE, by |-> Top.by]>>
                   ELSE <<>>
           pname == ResolvedName(p, r.id)
       IN  IF p.url = PNone /\ ~r.found
           THEN Raise("LibNotFound", call \o look)
           ELSE /\ stack' = SetTop([Top EXCEPT
                        !.pname = pname, !.preq = p.requirements, !.url = p.url,
                        !.already_installed =
                            get_installed_dir(store, pname, p.requirements, p.url),
                        !.pc = "store"])
                /\ log' = log \o call \o look
                /\ UNCHANGED <<exc, store, outcome>>
    /\ UNCHANGED <<world, attempts, norm_vars, sel_vars, res_vars>>

\* _install_from_piorepo asking for the download before it looks at version
InstallFromPiorepoLate(name, requirements) ==
    LET id   == get_pkg_id_by_name(store, name, requirements).id
        item == max_satisfying_repo_version(RegVersions(id), requirements)
        asked == <<[e |-> "versions", depth |-> Depth, name |-> name, id |-> id],
                   [e |-> "download", depth |-> Depth, name |-> name, id |-> id,
                    version |-> IF item = PNone THEN <<>> ELSE item.version]>>
    IN  IF item = PNone
        THEN Raise("UndefinedPackageVersion", asked)
        ELSE /\ stack' = SetTop([Top EXCEPT
                     !.dl = [url |-> RegistryUrl(id, item.version), id |-> id,
                             version |-> item.version],
                     !.pc = "https"])
             /\ log' = log \o asked
             /\ UNCHANGED <<exc, store, outcome>>

\* lines 120-128, _install_from_piorepo up to the download request: the
\* version list, the version selected, UndefinedPackageVersion or the URL
InstallFromPiorepo(name, requirements) ==
    LET id   == get_pkg_id_by_name(store, name, requirements).id
        item == max_satisfying_repo_version(RegVersions(id), requirements)
        asked == <<[e |-> "versions", depth |-> Depth, name |-> name, id |-> id]>>
    IN  IF item = PNone
        THEN Raise("UndefinedPackageVersion", asked)
        ELSE /\ stack' = SetTop([Top EXCEPT
                     !.dl = [url |-> RegistryUrl(id, item.version), id |-> id,
                             version |-> item.version],
                     !.pc = "https"])
             /\ log' = log \o asked \o
                       <<[e |-> "download", depth |-> Depth, name |-> name,
                          id |-> id, version |-> item.version]>>
             /\ UNCHANGED <<exc, store, outcome>>

\* line 149, BasePkgManager.install(name, requirements): the installed
\* directory if there is one, else a direct-URL install or an install from the
\* registry
StoreInstall ==
    /\ Running
    /\ Top.pc = "store"
    /\ LET p == parse_pkg_name(IF Top.url = PNone THEN PStr(Top.pname) ELSE Top.name,
                               Top.preq)
           installed_dir == get_installed_dir(store, p.name, p.requirements, p.url)
       IN  IF installed_dir # PNone
           THEN /\ stack' = SetTop([Top EXCEPT !.pkg_dir = installed_dir,
                                               !.pc = "after"])
                /\ UNCHANGED <<exc, store, outcome, log>>
           ELSE IF p.url # PNone
           THEN /\ stack' = SetTop([Top EXCEPT !.dl = [url |-> p.url.v, id |-> 0,
                                                       version |-> <<>>],
                                               !.pc = "url"])
                /\ UNCHANGED <<exc, store, outcome, log>>
           ELSE InstallFromPiorepo(p.name, p.requirements)
    /\ attempts' = <<>>
    /\ UNCHANGED <<world, norm_vars, sel_vars, res_vars>>

\* _install_from_url succeeded: the package is in the store
Written(pkg) ==
    /\ store' = store \cup {pkg}
    /\ stack' = SetTop([Top EXCEPT !.pkg_dir = PStr(pkg.dir), !.pc = "after"])
    /\ log' = Append(log, [e |-> "written", depth |-> Depth, dir |-> pkg.dir])
    /\ UNCHANGED <<exc, outcome>>

\* one call of _install_from_url by the call on top of the stack; result is
\* "ok" or the exception it raised
Attempt(url, result) ==
    [url |-> url, given |-> Top.dl.url, registry |-> Top.url = PNone,
     result |-> result]

\* lines 130-133: the download from the URL with http upgraded to https;
\* APIRequestError is caught, any other exception leaves the call
DownloadHttps ==
    /\ Running
    /\ Top.pc = "https"
    /\ \/ /\ attempts' = Append(attempts, Attempt(ReplaceHttp(Top.dl.url), "ok"))
          /\ Written(RepoPackage(Top.dl.id, Top.dl.version, world.deps[Top.dl.id]))
       \/ /\ attempts' = Append(attempts, Attempt(ReplaceHttp(Top.dl.url),
                                                  "APIRequestError"))
          /\ stack' = SetTop([Top EXCEPT !.pc = "http"])
          /\ UNCHANGED <<exc, store, outcome, log>>
       \/ /\ attempts' = Append(attempts, Attempt(ReplaceHttp(Top.dl.url),
                                                  "PlatformioException"))
          /\ Raise("PlatformioException", <<>>)
    /\ UNCHANGED <<world, norm_vars, sel_vars, res_vars>>

\* lines 134-136: the download from the URL as the registry gave it; nothing
\* is caught here
DownloadHttp ==
    /\ Running
    /\ Top.pc = "http"
    /\ \/ /\ attempts' = Append(attempts, Attempt(Top.dl.url, "ok"))
          /\ Written(RepoPackage(Top.dl.id, Top.dl.version, world.deps[Top.dl.id]))
       \/ \E e \in {"APIRequestError", "PlatformioException"} :
             /\ attempts' = Append(attempts, Attempt(Top.dl.url, e))
             /\ Raise(e, <<>>)
    /\ UNCHANGED <<world, norm_vars, sel_vars, res_vars>>

\* BasePkgManager.install of a direct URL
DownloadUrl ==
    /\ Running
    /\ Top.pc = "url"
    /\ \/ /\ attempts' = Append(attempts, Attempt(Top.dl.url, "ok"))
          /\ Written(UrlPackage(Top.pname, Top.dl.url))
       \/ /\ attempts' = Append(attempts, Attempt(Top.dl.url, "APIRequestError"))
          /\ Raise("APIRequestError", <<>>)
    /\ UNCHANGED <<world, norm_vars, sel_vars, res_vars>>

\* lines 152-160: return at once for a target that was installed already, or
\* when the manifest has no dependencies; else normalise them
InstallAfter ==
    /\ Running
    /\ Top.pc = "after"
    /\ IF ReturnsEarly(Top.already_installed)
       THEN Return(EarlyReturnValue(Top.pkg_dir))
       ELSE IF ~Has(load_manifest(store, Top.pkg_dir), kDependencies)
       THEN Return(Top.pkg_dir)
       ELSE /\ stack' = SetTop([Top EXCEPT
                    !.deps = normalize_dependencies(
                                 load_manifest(store, Top.pkg_dir).at[kDependencies]),
                    !.i = 1, !.pc = "loop"])
            /\ log' = Append(log, [e |-> "expand", depth |-> Depth,
                                   name |-> Top.pname, requirements |-> Top.preq,
                                   url |-> Top.url])
            /\ UNCHANGED <<exc, store, outcome>>
    /\ attempts' = <<>>
    /\ UNCHANGED <<world, norm_vars, sel_vars, res_vars>>

\* lines 162-179: the next dependency is resolved and its install called, or
\* the loop is over and the call returns pkg_dir
InstallLoop ==
    /\ Running
    /\ Top.pc = "loop"
    /\ IF Top.i > Len(Top.deps)
       THEN Return(Top.pkg_dir)
       ELSE LET filters == NextFilter(Top)
                version == IF Has(filters, kVersion) THEN filters.at[kVersion].v
                           ELSE <<>>
                c == ChooseLibrary(RegistrySearch(BuildQuery(filters, 1)),
                                   EnablePrompts)
                asked == <<[e |-> "search", depth |-> Depth,
                            name |-> filters.at[kName].v, dep |-> TRUE,
                            by |-> Top.already_installed]>>
                caller == [Top EXCEPT !.expanded = Top.expanded + 1]
            IN  IF HasSlash(version)
                THEN /\ stack' = Append(SetTop(caller),
                                        Frame(PStr(filters.at[kName].v \o <<"=">>
                                                   \o version), PNone,
                                              Top.already_installed))
                     /\ UNCHANGED <<exc, store, outcome, log>>
                ELSE IF c.kind # "found"
                THEN Raise("LibNotFound", asked)
                ELSE /\ stack' = Append(SetTop(caller),
                                        Frame(PInt(c.lib_info.id),
                                              IF version # <<>> THEN PStr(version)
                                              ELSE PNone,
                                              Top.already_installed))
                     /\ log' = log \o asked
                     /\ UNCHANGED <<exc, store, outcome>>
    /\ UNCHANGED <<world, attempts, norm_vars, sel_vars, res_vars>>

\* Unwind with the dependency loop catching the exception and going on
UnwindSwallow ==
    /\ exc # "none"
    /\ stack # <<>>
    /\ IF Depth = 1
       THEN /\ stack' = <<>>
            /\ outcome' = [status |-> "raised", value |-> exc]
            /\ UNCHANGED exc
       ELSE /\ stack' = [SubSeq(stack, 1, Depth - 1) EXCEPT
                            ![Depth - 1].i = stack[Depth - 1].i + 1]
            /\ exc' = "none"
            /\ UNCHANGED outcome
    /\ UNCHANGED <<store, log, world, attempts, norm_vars, sel_vars, res_vars>>

\* an exception leaves the call on top of the stack, which has no handler
Unwind ==
    /\ exc # "none"
    /\ stack # <<>>
    /\ stack' = SubSeq(stack, 1, Depth - 1)
    /\ outcome' = IF Depth = 1 THEN [status |-> "raised", value |-> exc]
                  ELSE outcome
    /\ UNCHANGED <<exc, store, log, world, attempts, norm_vars, sel_vars, res_vars>>

----------------------------------------------------------------------------
(* The installs modelled: install("A") into a store that is empty or holds *)
(* one library, over every choice of dependency lists.                     *)

DepFilters ==
    << MkDict(<< <<kName, PStr(<<"B">>)>>, <<kFrameworks, PStr(<<"*">>)>> >>),
       MkDict(<< <<kName, PStr(<<"C">>)>>, <<kVersion, PStr(<<">=", "9">>)>> >>),
       MkDict(<< <<kName, PStr(<<"X">>)>> >>),
       MkDict(<< <<kName, PStr(<<"C">>)>>, <<kVersion, PStr(<<">=", "1">>)>> >>),
       MkDict(<< <<kName, PStr(<<"A">>)>> >>),
       MkDict(<< <<kName, PStr(<<"U">>)>>, <<kVersion, PStr(DirectUrl)>> >>) >>

\* the dependency lists: at most MaxDeps of the filters, in the order above
DepLists ==
    {[i \in 1..Len(SelectSeq([k \in 1..Len(DepFilters) |-> k], LAMBDA k : k \in S))
          |-> DepFilters[SelectSeq([k \in 1..Len(DepFilters) |-> k],
                                   LAMBDA k : k \in S)[i]]] :
        S \in {T \in SUBSET (1..Len(DepFilters)) : Cardinality(T) <= MaxDeps}}

\* the dependencies the three libraries declare
WorldOf(a, b, c) == [deps |-> <<PList(a), PList(b), c>>]

\* the store before the call: empty, one library at its first version, or A
\* as installed from a direct URL, whose manifest has no id
InitialStores(w) ==
    {{}} \cup {{RepoPackage(id, <<"1", ".", "0", ".", "0">>, w.deps[id])} :
                  id \in LibIds}
         \cup {{UrlPackage(<<"A">>, DirectUrl)}}

Init ==
    /\ NormIdle
    /\ SelIdle
    /\ ResIdle
    /\ \E a \in DepLists, b \in DepLists, c \in {PNone, PList(<<DepFilters[5]>>)} :
          world = WorldOf(a, b, c)
    /\ store \in InitialStores(world)
    /\ stack = <<Frame(PStr(<<"A">>), PNone, PNone)>>
    /\ log = <<>>
    /\ attempts = <<>>
    /\ exc = "none"
    /\ outcome = [status |-> "running", value |-> PNone]

Next ==
    \/ InstallParse
    \/ StoreInstall
    \/ DownloadHttps
    \/ DownloadHttp
    \/ DownloadUrl
    \/ InstallAfter
    \/ InstallLoop
    \/ Unwind

----------------------------------------------------------------------------
(* Specifications *)

vars == <<norm_vars, sel_vars, res_vars, inst_vars>>

Spec == Init /\ [][Next]_vars

SpecNorm == InitNorm /\ [][NextNorm]_vars

SpecSel == InitSel /\ [][NextSel]_vars

SpecRes == InitRes /\ [][NextRes]_vars

----------------------------------------------------------------------------
(* Properties of the normalizer *)

\* C7: normalize is idempotent: the list returned for the list the first call
\* returned equals that list, for every raw declaration shape.
C7_Idempotent == norm_pc = "twice" => norm_out2 = norm_out

\* a list with a wildcard and a comma-separated field was normalised twice
C7_Witness ==
    /\ norm_pc = "twice"
    /\ norm_in = PList(<< MkDict(<< <<kName, PStr(<<"a">>)>>,
                                   <<kFrameworks, PStr(<<"a", ",", " ", "b">>)>>,
                                   <<kPlatforms, PStr(<<"*">>)>> >>) >>)
    /\ norm_out = << MkDict(<< <<kName, PStr(<<"a">>)>>,
                              <<kFrameworks, PList(<< <<"a">>, <<"b">> >>)>> >>) >>
    /\ norm_out2 = norm_out

RECURSIVE Flatten(_)
Flatten(l) == IF l = <<>> THEN <<>> ELSE Head(l) \o Flatten(Tail(l))

NotSpace(c) == c # " "
NotSpaceOrComma(c) == c # " " /\ c # ","

\* toks are trimmed, non-empty, comma-free pieces holding the text of s
TrimmedTokensOf(s, toks) ==
    /\ \A i \in 1..Len(toks) :
          /\ toks[i] # <<>>
          /\ Head(toks[i]) # " "
          /\ toks[i][Len(toks[i])] # " "
          /\ \A j \in 1..Len(toks[i]) : toks[i][j] # ","
    /\ SelectSeq(Flatten(toks), NotSpace) = SelectSeq(s, NotSpaceOrComma)

\* out is what src becomes: same name, wildcard fields gone, strings split
FilterOf(src, out) ==
    /\ out.at[kName] = src.at[kName]
    /\ \A k \in {kFrameworks, kPlatforms} :
          IF ~Has(src, k) THEN ~Has(out, k)
          ELSE IF src.at[k] = PStr(<<"*">>) THEN ~Has(out, k)
          ELSE IF src.at[k].t = "str"
               THEN /\ Has(out, k)
                    /\ out.at[k].t = "list"
                    /\ TrimmedTokensOf(src.at[k].v, out.at[k].v)
          ELSE Has(out, k) /\ out.at[k] = src.at[k]

\* the entries of the argument that carry a name, in the argument's order
NamedEntries(deps) ==
    IF deps.t = "list" THEN SelectSeq(deps.v, LAMBDA d : Has(d, kName))
    ELSE IF deps.t = "dict" /\ Has(deps.v, kName) THEN <<deps.v>>
    ELSE <<>>

\* C8: every returned filter has a name; list entries without a name are
\* dropped and the others keep their order; no returned frameworks/platforms
\* field is the wildcard or an unsplit string: the wildcard is removed, a
\* comma-separated string becomes its trimmed non-empty tokens.
C8_Filters ==
    norm_pc # "idle" =>
        /\ \A i \in 1..Len(norm_out) :
              /\ Has(norm_out[i], kName)
              /\ \A k \in {kFrameworks, kPlatforms} :
                    Has(norm_out[i], k) => norm_out[i].at[k].t # "str"
        /\ (norm_in.t = "list" \/ (norm_in.t = "dict" /\ Has(norm_in.v, kName))) =>
              /\ Len(norm_out) = Len(NamedEntries(norm_in))
              /\ \A i \in 1..Len(norm_out) :
                    FilterOf(NamedEntries(norm_in)[i], norm_out[i])

\* a nameless entry was dropped, a wildcard removed and a string split
C8_Witness ==
    /\ norm_pc = "once"
    /\ norm_in = PList(<< MkDict(<< <<kFrameworks, PStr(<<"*">>)>> >>),
                          MkDict(<< <<kName, PStr(<<"b">>)>>,
                                   <<kFrameworks, PStr(<<"a", ",", " ", "b">>)>>,
                                   <<kPlatforms, PStr(<<"*">>)>> >>) >>)
    /\ norm_out = << MkDict(<< <<kName, PStr(<<"b">>)>>,
                              <<kFrameworks, PList(<< <<"a">>, <<"b">> >>)>> >>) >>

\* C9: normalize is pure: the declarations passed in are unchanged by the call.
C9_Pure == norm_pc # "idle" => norm_deps = norm_in

----------------------------------------------------------------------------
(* Properties of the version selector *)

\* the candidates (by position) whose version parses and lies in the range
Satisfying(versions, spec) ==
    {i \in 1..Len(versions) :
        /\ ParseVersion(versions[i].version).ok
        /\ SpecMatch(spec, ParseVersion(versions[i].version).v)}

\* C4: for a non-empty requirement that parses as a range, the result is a
\* candidate inside the range with no satisfying candidate strictly greater;
\* when no candidate satisfies the range the result is None (no fallback to
\* the latest by date).
C4_RangeBest ==
    (sel_pc = "done" /\ Truthy(sel_req) /\ ParseSpec(sel_req.v).ok) =>
        LET sat == Satisfying(sel_versions, ParseSpec(sel_req.v))
        IN  IF sat = {} THEN sel_item = PNone
            ELSE \E i \in sat :
                    /\ sel_item = sel_versions[i]
                    /\ \A j \in sat :
                          ~VersionLt(ParseVersion(sel_versions[i].version).v,
                                     ParseVersion(sel_versions[j].version).v)

\* ">=1.2" over 1.0.0 (newest), 2.0.0, 1.2.3 selected 2.0.0
C4_Witness ==
    /\ sel_pc = "done"
    /\ sel_req = PStr(<<">=", "1", ".", "2">>)
    /\ sel_versions =
          << [version |-> <<"1", ".", "0", ".", "0">>, date |-> Date("2021", "00")],
             [version |-> <<"2", ".", "0", ".", "0">>, date |-> Date("2020", "00")],
             [version |-> <<"1", ".", "2", ".", "3">>, date |-> Date("2021", "00")] >>
    /\ sel_item = sel_versions[2]

\* the first candidate whose version string is the requirement, else None
FirstVerbatim(versions, req) ==
    LET m == {i \in 1..Len(versions) : versions[i].version = req}
    IN  IF m = {} THEN PNone
        ELSE versions[CHOOSE i \in m : \A j \in m : i <= j]

\* C5 as stated: for every requirement string given that fails to parse as a
\* range, the result is the first candidate whose version string equals it,
\* or None.
C5_ExactAnyString ==
    (sel_pc = "done" /\ sel_req.t = "str" /\ ~ParseSpec(sel_req.v).ok) =>
        sel_item = FirstVerbatim(sel_versions, sel_req.v)

\* C5, amended: for every non-empty requirement string that fails to parse as
\* a range, the result is the first candidate (in input order) whose version
\* string equals the requirement verbatim, and None when there is none.
C5_ExactNonEmpty ==
    (sel_pc = "done" /\ Truthy(sel_req) /\ ~ParseSpec(sel_req.v).ok) =>
        sel_item = FirstVerbatim(sel_versions, sel_req.v)

\* "m" over 1.0.0, m (2020), m (2021) selected the first m
C5_Witness ==
    /\ sel_pc = "done"
    /\ sel_req = PStr(<<"m">>)
    /\ sel_versions =
          << [version |-> <<"1", ".", "0", ".", "0">>, date |-> Date("2021", "00")],
             [version |-> <<"m">>, date |-> Date("2020", "00")],
             [version |-> <<"m">>, date |-> Date("2021", "00")] >>
    /\ sel_item = sel_versions[2]

\* C6: with no requirement, the result over a non-empty list is the candidate
\* with the latest publish timestamp, the first in input order among those
\* sharing it.
C6_LatestFirst ==
    (sel_pc = "done" /\ ~Truthy(sel_req) /\ sel_versions # <<>>) =>
        \E i \in 1..Len(sel_versions) :
            /\ sel_item = sel_versions[i]
            /\ \A j \in 1..Len(sel_versions) :
                  ~DateLtFrom(ParseDate(sel_versions[i].date),
                              ParseDate(sel_versions[j].date), 1)
            /\ \A j \in 1..(i - 1) :
                  DateLtFrom(ParseDate(sel_versions[j].date),
                             ParseDate(sel_versions[i].date), 1)

\* None over 1.0.0 (2020), 1.2 (2021), 2.0.0 (2021) selected 1.2
C6_Witness ==
    /\ sel_pc = "done"
    /\ sel_req = PNone
    /\ sel_versions =
          << [version |-> <<"1", ".", "0", ".", "0">>, date |-> Date("2020", "00")],
             [version |-> <<"1", ".", "2">>, date |-> Date("2021", "00")],
             [version |-> <<"2", ".", "0", ".", "0">>, date |-> Date("2021", "00")] >>
    /\ sel_item = sel_versions[2]

----------------------------------------------------------------------------
(* Properties of the resolver *)

\* C10: a search reporting zero matches ends in LibNotFound; one reporting
\* exactly one match returns that entry and issues no prompt, whatever the
\* enable_prompts setting.
C10_ZeroOrOne ==
    res_pc \in {"prompt", "done"} =>
        /\ res_in.result.total = 0 =>
              res_pc = "done" /\ res_out.status = "LibNotFound"
        /\ res_in.result.total = 1 =>
              /\ res_pc = "done"
              /\ res_out.status = "returned"
              /\ res_out.lib_info = res_in.result.items[1]
              /\ res_out.prompts = 0

\* one match, prompts enabled: the entry came back without a prompt
C10_Witness ==
    /\ res_pc = "done"
    /\ res_in.enable_prompts
    /\ res_in.result = [total |-> 1, items |-> <<ResItem(2)>>]
    /\ res_out.status = "returned"
    /\ res_out.lib_info = ResItem(2)
    /\ res_out.prompts = 0

\* C11: a search reporting more than one match returns one of the items
\* listed: the first, without a prompt, when prompts are disabled; the item
\* whose id is the answer to the one prompt when they are enabled.
C11_FromCandidates ==
    (res_pc = "done" /\ res_in.result.total > 1) =>
        /\ res_out.status = "returned"
        /\ \E i \in 1..Len(res_in.result.items) :
              res_out.lib_info = res_in.result.items[i]
        /\ ~res_in.enable_prompts =>
              /\ res_out.lib_info = res_in.result.items[1]
              /\ res_out.prompts = 0
        /\ res_in.enable_prompts =>
              /\ res_out.prompts = 1
              /\ res_out.lib_info.id = res_out.pick

\* three matches, prompts enabled, the second one picked and returned
C11_Witness ==
    /\ res_pc = "done"
    /\ res_in.enable_prompts
    /\ res_in.result = [total |-> 3,
                        items |-> <<ResItem(3), ResItem(1), ResItem(2)>>]
    /\ res_out.pick = 1
    /\ res_out.status = "returned"
    /\ res_out.lib_info = ResItem(1)
    /\ res_out.prompts = 1

----------------------------------------------------------------------------
(* Properties of the install orchestrator *)

\* C1: a call whose target the store reported installed before the physical
\* install does no recursive dependency install: its dependency loop is never
\* entered, so no resolver query and no nested install comes from it.
C1_NoRecursion ==
    /\ \A k \in 1..Len(stack) :
          stack[k].already_installed # PNone =>
              /\ stack[k].pc # "loop"
              /\ stack[k].expanded = 0
              /\ k = Len(stack)
    /\ \A n \in 1..Len(log) :
          /\ (log[n].e = "return" /\ log[n].already_installed # PNone) =>
                log[n].expanded = 0
          /\ (log[n].e = "search" /\ log[n].dep) => log[n].by = PNone
          /\ log[n].e = "call" => log[n].by = PNone

\* install("A") with A installed and declaring two dependencies returned
\* after its own call alone
C1_Witness ==
    /\ outcome.status = "returned"
    /\ world.deps[1] = PList(<<DepFilters[1], DepFilters[4]>>)
    /\ Len(log) = 2
    /\ log[1].e = "call"
    /\ log[2].e = "return"
    /\ log[2].already_installed =
          PStr(PkgDir(<<"A">>, <<"1", ".", "0", ".", "0">>))
    /\ log[2].expanded = 0

\* C2: every install call that returns, returns the install path of its
\* target, the path the store reports for it, also when the target was
\* installed already.
C2_ReturnsPath ==
    \A n \in 1..Len(log) :
        log[n].e = "return" =>
            log[n].value # PNone /\ log[n].value = log[n].installed

\* one step taken while LibNotFound or UndefinedPackageVersion is in flight
PropagateStep ==
    exc \in {"LibNotFound", "UndefinedPackageVersion"} =>
        /\ exc' = exc
        /\ log' = log
        /\ store' = store
        /\ stack' = SubSeq(stack, 1, Len(stack) - 1)
        /\ outcome'.status # "returned"
        /\ (stack' = <<>> =>
               outcome' = [status |-> "raised", value |-> exc])

\* C3: once LibNotFound or UndefinedPackageVersion is raised in a chain of
\* install calls it leaves every call of the chain unchanged: each step ends
\* one more call without a return, nothing more is resolved, requested or
\* installed, and the top-level call ends with that exception.
C3_Propagates == [][PropagateStep]_vars

\* A -> [B, C], B -> [C >=9, C]: installing C >=9 raised in the third call and
\* ended all three; C was never installed
C3_Witness ==
    /\ outcome = [status |-> "raised", value |-> "UndefinedPackageVersion"]
    /\ world.deps[1] = PList(<<DepFilters[1], DepFilters[4]>>)
    /\ world.deps[2] = PList(<<DepFilters[2], DepFilters[4]>>)
    /\ log[Len(log)] = [e |-> "raise", depth |-> 3,
                        exc |-> "UndefinedPackageVersion"]
    /\ \A p \in store : p.manifest.at[kName] # PStr(<<"C">>)
    /\ \E p \in store : p.manifest.at[kName] = PStr(<<"B">>)

\* C12: every request to the version-list or download endpoint is keyed by a
\* name id=N and the id N, never a bare library name; and a call without a
\* direct URL holds its name as id=N from before the physical install on.
C12_KeyedById ==
    /\ \A n \in 1..Len(log) :
          log[n].e \in {"versions", "download"} =>
              /\ IsIdName(log[n].name)
              /\ log[n].id = IdOfName(log[n].name)
              /\ log[n].id \in LibIds
    /\ \A k \in 1..Len(stack) :
          (stack[k].pc # "parse" /\ stack[k].url = PNone) =>
              IsIdName(stack[k].pname)

\* install("A") by bare name asked for the versions and the download of id=1,
\* and its dependency B, resolved by a search, for those of id=2
C12_Witness ==
    /\ log # <<>>
    /\ log[1].e = "call"
    /\ log[1].name = PStr(<<"A">>)
    /\ \E n \in 1..Len(log) :
          /\ log[n].e = "download"
          /\ log[n].depth = 1
          /\ log[n].name = <<"id=", "1">>
    /\ \E n \in 1..Len(log) :
          /\ log[n].e = "download"
          /\ log[n].depth = 2
          /\ log[n].name = <<"id=", "2">>
          /\ log[n].id = 2

\* C13: a registry download is attempted first at the URL given with http
\* upgraded to https; the URL as given is attempted once more, and only after
\* the first attempt raised APIRequestError; there is no third attempt, and
\* an exception of the second attempt leaves install unhandled.
C13_HttpsThenHttp ==
    (attempts # <<>> /\ attempts[1].registry) =>
        /\ Len(attempts) <= 2
        /\ Head(attempts[1].given) = "http"
        /\ attempts[1].url = <<"https">> \o Tail(attempts[1].given)
        /\ (Len(attempts) = 1 /\ attempts[1].result = "APIRequestError") =>
              /\ Running
              /\ Top.pc = "http"
              /\ Top.dl.url = attempts[1].given
        /\ (Len(attempts) = 1 /\ attempts[1].result = "PlatformioException") =>
              exc = "PlatformioException"
        /\ Len(attempts) = 2 =>
              /\ attempts[1].result = "APIRequestError"
              /\ attempts[2].given = attempts[1].given
              /\ attempts[2].url = attempts[1].given
              /\ attempts[2].result # "ok" =>
                    /\ exc = attempts[2].result
                    /\ outcome.status # "returned"
                    /\ stack = <<>> =>
                          outcome = [status |-> "raised",
                                     value |-> attempts[2].result]

\* the https download and then the http download of dependency B both failed
\* with APIRequestError, which ended install("A")
C13_Witness ==
    /\ Len(attempts) = 2
    /\ attempts[1] = [url |-> ReplaceHttp(RegistryUrl(2, <<"2", ".", "0", ".", "0">>)),
                      given |-> RegistryUrl(2, <<"2", ".", "0", ".", "0">>),
                      registry |-> TRUE, result |-> "APIRequestError"]
    /\ attempts[2] = [url |-> RegistryUrl(2, <<"2", ".", "0", ".", "0">>),
                      given |-> RegistryUrl(2, <<"2", ".", "0", ".", "0">>),
                      registry |-> TRUE, result |-> "APIRequestError"]
    /\ outcome = [status |-> "raised", value |-> "APIRequestError"]

\* the dependencies of no target (name, requirements, url) were expanded twice
ExpandedOnce ==
    \A m, n \in 1..Len(log) :
        (/\ log[m].e = "expand"
         /\ log[n].e = "expand"
         /\ log[m].name = log[n].name
         /\ log[m].requirements = log[n].requirements
         /\ log[m].url = log[n].url) => m = n

\* every package the registry and the direct URL can put into the store
AllPackages ==
    UNION {{RepoPackage(id, RegVersions(id)[j].version, world.deps[id]) :
               j \in DOMAIN RegVersions(id)} : id \in LibIds}
    \cup {UrlPackage(<<"U">>, DirectUrl), UrlPackage(<<"A">>, DirectUrl)}

\* what one call has left to do while no physical install is added: the steps
\* up to its return, a nested call for each dependency not yet reached
FrameWork(k) ==
    LET f == stack[k]
    IN  CASE f.pc = "parse" -> 5
          [] f.pc = "store" -> 4
          [] f.pc = "https" -> 3
          [] f.pc \in {"http", "url"} -> 2
          [] f.pc = "after" ->
                IF f.already_installed # PNone THEN 1 ELSE 8 * (MaxDeps + 1) + 2
          [] f.pc = "loop" ->
                IF k = Len(stack) THEN 8 * (Len(f.deps) + 1 - f.i) + 1
                ELSE 8 * (Len(f.deps) - f.i) + 2

RECURSIVE StackWork(_)
StackWork(k) == IF k = 0 THEN 0 ELSE FrameWork(k) + 1 + StackWork(k - 1)

WorkCap == 100 * (MaxDeps + 1)

\* the directories of AllPackages
AllDirs ==
    UNION {{PkgDir(LibNames[id], RegVersions(id)[j].version) :
               j \in DOMAIN RegVersions(id)} : id \in LibIds}
    \cup {PkgDir(<<"U">>, <<"0", ".", "1", ".", "0">>),
          PkgDir(<<"A">>, <<"0", ".", "1", ".", "0">>)}

\* the variant of install: the packages not yet in the store, then the work
\* left in the call stack; an exception in flight has only the stack to leave
Rank ==
    (Cardinality(AllDirs) - Cardinality(store)) * WorkCap
    + (IF exc # "none" THEN Len(stack) ELSE StackWork(Len(stack)))

\* Rank is a natural number below the next multiple of WorkCap, and a call
\* that is running is at one of the places from which install goes on
RankDefined ==
    /\ store \subseteq AllPackages
    /\ AllDirs = {p.dir : p \in AllPackages}
    /\ Cardinality(store) = Cardinality({p.dir : p \in store})
    /\ StackWork(Len(stack)) < WorkCap
    /\ \A k \in 1..Len(stack) :
          /\ stack[k].pc \in {"parse", "store", "https", "http", "url", "after",
                              "loop"}
          /\ stack[k].pc = "loop" => stack[k].i \in 1..(Len(stack[k].deps) + 1)
          /\ Len(stack[k].deps) <= MaxDeps
          /\ (k < Len(stack) /\ exc = "none") => stack[k].pc = "loop"

\* each step of install lowers Rank
RankFalls == Rank' < Rank

\* C14: whatever the dependency lists, cycles included, install("A") ends:
\* every step lowers a natural number, the store reporting a target installed
\* once its physical install is done; and the dependencies of each target are
\* expanded at most once on the way.
C14_Terminates == []ExpandedOnce /\ []RankDefined /\ [][RankFalls]_vars

\* A -> [B], B -> [A]: install("A") returned; A and B were expanded once each
\* and the nested install of A returned at once
C14_Witness ==
    /\ outcome.status = "returned"
    /\ world.deps[1] = PList(<<DepFilters[1]>>)
    /\ world.deps[2] = PList(<<DepFilters[5]>>)
    /\ Cardinality({n \in 1..Len(log) : log[n].e = "expand"}) = 2
    /\ \E n \in 1..Len(log) :
          /\ log[n].e = "return"
          /\ log[n].depth = 3
          /\ log[n].name = <<"id=", "1">>
          /\ log[n].already_installed # PNone

\* the filters install loops over for the package at pkg_dir, <<>> if its
\* manifest has no dependencies
FiltersOf(pkg_dir) ==
    IF Has(load_manifest(store, pkg_dir), kDependencies)
    THEN normalize_dependencies(load_manifest(store, pkg_dir).at[kDependencies])
    ELSE <<>>

\* C15: whether the target is installed is looked up before the physical
\* install: a call whose target was not installed then, and whose physical
\* install is done, goes through every filter of the normalized dependencies
\* of the manifest just written, in order, one nested step per filter, until
\* it returns (or an exception ends it); it never returns early.
C15_CheckedBefore ==
    /\ \A k \in 1..Len(stack) :
          (stack[k].already_installed = PNone /\ stack[k].pc = "loop") =>
              /\ stack[k].deps = FiltersOf(stack[k].pkg_dir)
              /\ stack[k].expanded \in {stack[k].i - 1, stack[k].i}
              /\ exc = "none" =>
                    stack[k].expanded =
                        IF k < Len(stack) THEN stack[k].i ELSE stack[k].i - 1
    /\ \A n \in 1..Len(log) :
          (log[n].e = "return" /\ log[n].already_installed = PNone) =>
              /\ log[n].value # PNone
              /\ log[n].expanded = Len(FiltersOf(log[n].value))

\* install("A") into a store without A wrote A, whose manifest declares B and
\* C, and returned after a nested install for each
C15_Witness ==
    /\ outcome.status = "returned"
    /\ world.deps[1] = PList(<<DepFilters[1], DepFilters[4]>>)
    /\ \E n \in 1..Len(log) :
          /\ log[n].e = "written"
          /\ log[n].depth = 1
    /\ log[Len(log)].e = "return"
    /\ log[Len(log)].depth = 1
    /\ log[Len(log)].already_installed = PNone
    /\ log[Len(log)].expanded = 2

\* whether call c is the nested install lines 164-178 make for filters
CallsFor(c, filters) ==
    LET version == IF Has(filters, kVersion) THEN filters.at[kVersion].v ELSE <<>>
    IN  IF HasSlash(version)
        THEN /\ c.name = PStr(filters.at[kName].v \o <<"=">> \o version)
             /\ c.requirements = PNone
        ELSE /\ c.name.t = "int"
             /\ c.name.v \in LibIds
             /\ LibNames[c.name.v] = filters.at[kName].v
             /\ c.requirements = IF version # <<>> THEN PStr(version) ELSE PNone

\* C16: dependencies are installed depth-first, one at a time, in the order
\* of the normalized list: every call below the top of the stack waits in its
\* loop for the nested install of the one dependency it has reached, the
\* earlier ones having returned; so only the top call can be in a physical
\* install, and in the history the calls of one depth are separated by a
\* return of that depth, with nothing shallower in between a call and its
\* return.
C16_DepthFirst ==
    /\ \A k \in 1..(Len(stack) - 1) :
          /\ stack[k].pc = "loop"
          /\ stack[k].i \in 1..Len(stack[k].deps)
          /\ stack[k].expanded = stack[k].i
          /\ CallsFor(stack[k + 1], stack[k].deps[stack[k].i])
    /\ Cardinality({k \in 1..Len(stack) :
                       stack[k].pc \in {"store", "https", "http", "url"}}) <= 1
    /\ \A m, n \in 1..Len(log) :
          (m < n /\ log[m].e = "call" /\ log[n].e = "call"
                 /\ log[m].depth = log[n].depth) =>
              \E r \in (m + 1)..(n - 1) :
                  /\ log[r].e = "return"
                  /\ log[r].depth = log[m].depth
                  /\ \A j \in (m + 1)..(r - 1) : log[j].depth >= log[m].depth

\* the depths of the calls and returns of the history, in order
CallDepths ==
    LET cr == SelectSeq(log, LAMBDA ev : ev.e \in {"call", "return"})
    IN  [n \in 1..Len(cr) |-> <<cr[n].e, cr[n].depth>>]

\* A -> [B, C], B -> [C]: B and below it C were installed and had returned
\* before the install of A's second dependency was called
C16_Witness ==
    /\ outcome.status = "returned"
    /\ world.deps[1] = PList(<<DepFilters[1], DepFilters[4]>>)
    /\ world.deps[2] = PList(<<DepFilters[4]>>)
    /\ store = {RepoPackage(1, <<"1", ".", "0", ".", "0">>, world.deps[1]),
                RepoPackage(2, <<"2", ".", "0", ".", "0">>, world.deps[2]),
                RepoPackage(3, <<"1", ".", "0", ".", "0">>, world.deps[3])}
    /\ CallDepths = << <<"call", 1>>, <<"call", 2>>, <<"call", 3>>,
                       <<"return", 3>>, <<"return", 2>>, <<"call", 2>>,
                       <<"return", 2>>, <<"return", 1>> >>

\* the step in which a call resolves its name (lines 144-147)
ParseResolves ==
    (Running /\ Top.pc = "parse") =>
        LET p == parse_pkg_name(Top.name, Top.requirements)
            new == SubSeq(log', Len(log) + 1, Len(log'))
            searched == \E n \in 1..Len(new) : new[n].e = "search"
            dir == get_installed_dir(store, p.name, p.requirements, PNone)
            reuse == /\ dir # PNone
                     /\ Has(load_manifest(store, dir), kId)
        IN  p.url = PNone =>
              /\ IsIdName(p.name) =>
                    /\ ~searched
                    /\ exc' = "none"
                    /\ stack'[Len(stack')].pname = p.name
              /\ (~IsIdName(p.name) /\ reuse) =>
                    /\ ~searched
                    /\ exc' = "none"
                    /\ stack'[Len(stack')].pname =
                          IdName(load_manifest(store, dir).at[kId].v)
              /\ (~IsIdName(p.name) /\ ~reuse) => searched

\* C17: a bare name whose library is installed under a compatible
\* requirement with an id in its manifest resolves to that id with no
\* registry search; the search is made only when there is no such id; and a
\* name id=N is taken as it is, with no search.
C17_ReusesInstalledId == [][ParseResolves]_vars

\* install("A") with A in the store, its manifest holding id 1: the call
\* went on as id=1 and the history has no search
C17_Witness ==
    /\ outcome.status = "returned"
    /\ world.deps[1] = PList(<<>>)
    /\ log # <<>>
    /\ log[1].e = "call"
    /\ log[1].name = PStr(<<"A">>)
    /\ \A n \in 1..Len(log) : log[n].e # "search"
    /\ log[Len(log)].e = "return"
    /\ log[Len(log)].name = <<"id=", "1">>

\* the step in which a call that has to install from the registry selects the
\* version (lines 122-127)
SelectsOrRaises ==
    (/\ Running
     /\ Top.pc = "store"
     /\ Top.url = PNone
     /\ get_installed_dir(store, Top.pname, Top.preq, PNone) = PNone) =>
        LET id   == IdOfName(Top.pname)
            item == max_satisfying_repo_version(RegVersions(id), Top.preq)
            new  == SubSeq(log', Len(log) + 1, Len(log'))
        IN  IF item = PNone
            THEN /\ exc' = "UndefinedPackageVersion"
                 /\ store' = store
                 /\ stack' = stack
                 /\ new = <<[e |-> "versions", depth |-> Depth,
                             name |-> Top.pname, id |-> id],
                            [e |-> "raise", depth |-> Depth,
                             exc |-> "UndefinedPackageVersion"]>>
            ELSE /\ exc' = "none"
                 /\ \E n \in 1..Len(new) :
                       new[n].e = "download" /\ new[n].version = item.version

\* UndefinedPackageVersion is raised by such a step only
RaisedBySelection ==
    (exc = "none" /\ exc' = "UndefinedPackageVersion") =>
        /\ Running
        /\ Top.pc = "store"
        /\ max_satisfying_repo_version(RegVersions(IdOfName(Top.pname)),
                                       Top.preq) = PNone

\* C18: when no published version of the resolved library satisfies the
\* requirement, install raises UndefinedPackageVersion having asked for the
\* version list only: no download request is made, nothing is written, and
\* the store is as it was.
C18_UndefinedBeforeDownload ==
    [][SelectsOrRaises /\ RaisedBySelection]_vars

\* A -> [C >=9]: A was written; for C the version list was asked, nothing
\* satisfied >=9, and UndefinedPackageVersion was raised with C not in the
\* store and no download asked for it
C18_Witness ==
    /\ exc = "UndefinedPackageVersion"
    /\ Len(stack) = 2
    /\ world.deps[1] = PList(<<DepFilters[2]>>)
    /\ store = {RepoPackage(1, <<"1", ".", "0", ".", "0">>, world.deps[1])}
    /\ log[Len(log) - 1] = [e |-> "versions", depth |-> 2,
                            name |-> <<"id=", "3">>, id |-> 3]
    /\ \A n \in 1..Len(log) : log[n].e = "download" => log[n].id # 3

====
